---- MODULE Spec2Model ----
(***************************************************************************)
(* User-management layer: the UserService data-access methods              *)
(* (app/services/user_service.py) over an SQLAlchemy AsyncSession, and the *)
(* validation schemas (app/schemas/user_schemas.py).                       *)
(***************************************************************************)
EXTENDS Integers, Sequences, FiniteSets, TLC

VARIABLES
    db,        \* committed User rows; the row at index i has primary key i
    sess,      \* the AsyncSession: pending new entities and transaction state
    last,      \* the service call that ended last: arguments and outcome
    schemaIn,  \* the schema-layer call in progress (validate_url, UserUpdate)
    schemaOut  \* and its outcome

vars == <<db, sess, last, schemaIn, schemaOut>>

\* Largest number of User entities the store and the session hold together.
MaxUsers == 1

\* Longest tail that follows the scheme part of a URL given to validate_url.
MaxTail == 3

(***************************************************************************)
(* Python values                                                           *)
(***************************************************************************)
PyNone == [t |-> "none"]
PyStr(s) == [t |-> "str", s |-> s]
PyInt(n) == [t |-> "int", n |-> n]

\* bool(v): None, the empty string and 0 are falsy.
Truthy(v) ==
    CASE v.t = "none" -> FALSE
      [] v.t = "str"  -> Len(v.s) > 0
      [] v.t = "int"  -> v.n # 0
      [] OTHER        -> TRUE

\* a or b
PyOr(a, b) == IF Truthy(a) THEN a ELSE b

\* obj.name on an object whose attributes are DOMAIN obj: AttributeError
\* when the object has no such attribute.
HasAttrs(obj, names) == names \subseteq DOMAIN obj

(***************************************************************************)
(* External collaborators (app.models, app.utils)                          *)
(***************************************************************************)
Roles == {"USER", "ADMIN"}

hash_password(plaintext) == PyStr("hashed:" \o plaintext.s)

\* generate_verification_token() and generate_nickname() draw from these.
Tokens == {PyStr("tok-1")}
Nicknames == {<<"j", "-", "d", "_", "1">>}

\* Field(..., min_length=3, pattern=r'^[\w-]+$') on nickname.
WordChars == {"j", "d", "_", "1"}
NicknamePattern(n) ==
    /\ Len(n) >= 3
    /\ \A i \in 1..Len(n) : n[i] \in WordChars \cup {"-"}

(***************************************************************************)
(* The AsyncSession.  s = [new, dirty, active] beside the committed rows.  *)
(*   new    : entities added and not yet flushed                           *)
(*   dirty  : loaded entities with attribute changes not yet flushed       *)
(*   active : FALSE once a flush or commit has failed, until rollback();   *)
(*            every execute/commit/refresh then raises a SQLAlchemyError   *)
(* An operation's outcome is "ok", "sqla" (a SQLAlchemyError) or "other"   *)
(* (any other Exception, such as an OSError of the driver).                *)
(***************************************************************************)
NoRows == <<>>
NoDirty == [i \in {} |-> PyNone]
CleanSession == [new |-> <<>>, dirty |-> NoDirty, active |-> TRUE]

\* The in-session view of row i: its unflushed attribute values if any.
Loaded(rows, s, i) == IF i \in DOMAIN s.dirty THEN s.dirty[i] ELSE rows[i]

\* A flush writes the dirty attribute values and inserts the new entities.
Flush(rows, s) ==
    [i \in DOMAIN rows |-> Loaded(rows, s, i)] \o s.new

\* session.add(entity)
SessAdd(s, entity) == [s EXCEPT !.new = Append(@, entity)]

\* setattr on the loaded entity i
SessSet(rows, s, i, attr, val) ==
    [s EXCEPT !.dirty =
        [j \in DOMAIN s.dirty \cup {i} |->
            IF j = i THEN [Loaded(rows, s, i) EXCEPT ![attr] = val]
            ELSE s.dirty[j]]]

\* session.rollback(): pending entities are expunged, changes are expired.
SessRollback(s) == CleanSession

\* session.commit() with injected outcome f. A failed flush or commit loses
\* the pending work and leaves the transaction unusable until rollback().
SessCommit(rows, s, f) ==
    IF ~s.active THEN [exc |-> "sqla", rows |-> rows, s |-> s]
    ELSE IF f # "ok"
    THEN [exc |-> f, rows |-> rows,
          s |-> [new |-> <<>>, dirty |-> NoDirty, active |-> FALSE]]
    ELSE [exc |-> "ok", rows |-> Flush(rows, s), s |-> CleanSession]

\* session.execute(select ...) / session.refresh(entity) with injected
\* outcome f; a failure may leave the transaction unusable (breaks).
SessQuery(rows, s, f, breaks) ==
    IF ~s.active THEN [exc |-> "sqla", rows |-> rows, s |-> s]
    ELSE IF f # "ok"
    THEN [exc |-> f, rows |-> rows, s |-> [s EXCEPT !.active = ~breaks]]
    ELSE [exc |-> "ok", rows |-> rows, s |-> s]

\* The fault injected into one service call: the session operation that
\* fails first (after it the call issues no further operation but rollback).
NoFault == [at |-> "none", kind |-> "ok", breaks |-> FALSE]
Faults ==
    {NoFault}
    \cup [at : {"execute", "refresh"}, kind : {"sqla", "other"}, breaks : BOOLEAN]
    \cup [at : {"lookup_commit", "commit"}, kind : {"sqla", "other"}, breaks : {TRUE}]

\* The faults that differ in what a call does: the operations the call
\* issues, and one representative of the faults it handles alike.
FaultsOf(ops) ==
    {f \in Faults :
        \/ f = NoFault
        \/ /\ f.at \in ops
           /\ (f.at \in {"commit", "refresh"} => f.kind = "sqla")
           /\ (f.at = "execute" /\ f.kind = "sqla" => f.breaks)}
Outcome(f, op) == IF f.at = op THEN f.kind ELSE "ok"

(***************************************************************************)
(* Validation schemas (app/schemas/user_schemas.py).  Strings are          *)
(* sequences of characters here.                                           *)
(***************************************************************************)
Whitespace == {" ", "\t", "\n"}

\* r'^https?:\/\/[^\s/$.?#][^\s]*$': the pattern without its '.'.
url_regex_without_dot ==
    <<[k |-> "start"],
      [k |-> "lit", c |-> "h"], [k |-> "lit", c |-> "t"],
      [k |-> "lit", c |-> "t"], [k |-> "lit", c |-> "p"],
      [k |-> "opt", c |-> "s"],
      [k |-> "lit", c |-> ":"], [k |-> "lit", c |-> "/"],
      [k |-> "lit", c |-> "/"],
      [k |-> "not", cs |-> Whitespace \cup {"/", "$", ".", "?", "#"}],
      [k |-> "star_not", cs |-> Whitespace],
      [k |-> "end"]>>

\* r'^https?:\/\/[^\s/$.?#].[^\s]*$' as the regex engine reads it.
url_regex ==
    <<[k |-> "start"],
      [k |-> "lit", c |-> "h"], [k |-> "lit", c |-> "t"],
      [k |-> "lit", c |-> "t"], [k |-> "lit", c |-> "p"],
      [k |-> "opt", c |-> "s"],
      [k |-> "lit", c |-> ":"], [k |-> "lit", c |-> "/"],
      [k |-> "lit", c |-> "/"],
      [k |-> "not", cs |-> Whitespace \cup {"/", "$", ".", "?", "#"}],
      [k |-> "dot"],
      [k |-> "star_not", cs |-> Whitespace],
      [k |-> "end"]>>

\* re.match from token ti of the pattern and position i of the string u,
\* by backtracking.  '.' matches anything but a newline; '$' matches at the
\* end of the string and just before a newline that ends it.
RECURSIVE MatchFrom(_, _, _, _)
MatchFrom(re, ti, u, i) ==
    IF ti > Len(re) THEN TRUE
    ELSE LET tk == re[ti]
             here == i <= Len(u)
         IN CASE tk.k = "start" -> i = 1 /\ MatchFrom(re, ti + 1, u, i)
              [] tk.k = "lit" ->
                    here /\ u[i] = tk.c /\ MatchFrom(re, ti + 1, u, i + 1)
              [] tk.k = "opt" ->
                    \/ here /\ u[i] = tk.c /\ MatchFrom(re, ti + 1, u, i + 1)
                    \/ MatchFrom(re, ti + 1, u, i)
              [] tk.k = "not" ->
                    here /\ u[i] \notin tk.cs /\ MatchFrom(re, ti + 1, u, i + 1)
              [] tk.k = "dot" ->
                    here /\ u[i] # "\n" /\ MatchFrom(re, ti + 1, u, i + 1)
              [] tk.k = "star_not" ->
                    \/ here /\ u[i] \notin tk.cs /\ MatchFrom(re, ti, u, i + 1)
                    \/ MatchFrom(re, ti + 1, u, i)
              [] tk.k = "end" ->
                    /\ \/ i = Len(u) + 1
                       \/ i = Len(u) /\ u[i] = "\n"
                    /\ MatchFrom(re, ti + 1, u, i)

re_match(re, u) == MatchFrom(re, 1, u, 1)

\* What a schema-layer call leaves: the value returned, or the error raised.
Returned(v) == [error |-> "none", value |-> v]
Raised(msg) == [error |-> msg, value |-> PyNone]

validate_url(url) ==
    IF url = PyNone THEN Returned(url)
    ELSE IF ~re_match(url_regex, url.s) THEN Raised("Invalid URL format")
    ELSE Returned(url)

\* A payload is the mapping given to the schema's constructor.
\* any(values.values())
AnyValue(values) == \E k \in DOMAIN values : Truthy(values[k])

Field(values, k) == IF k \in DOMAIN values THEN values[k] ELSE PyNone

\* EmailStr, reduced to: a string with an "@" inside it.
IsEmail(v) ==
    /\ v.t = "str"
    /\ \E i \in 2..(Len(v.s) - 1) : v.s[i] = "@"

\* Optional[str] = Field(None, max_length=hi)
IsStrAtMost(v, hi) == v.t = "str" /\ Len(v.s) <= hi

\* Optional[str] = Field(None, min_length=lo)
IsStrAtLeast(v, lo) == v.t = "str" /\ Len(v.s) >= lo

\* str.strip() on a sequence of characters.
RECURSIVE StripChars(_)
StripChars(q) ==
    IF q = <<>> THEN q
    ELSE IF Head(q) \in Whitespace THEN StripChars(Tail(q))
    ELSE IF q[Len(q)] \in Whitespace THEN StripChars(SubSeq(q, 1, Len(q) - 1))
    ELSE q

\* strip_whitespace: v.strip() if isinstance(v, str) else v
strip_whitespace(v) == IF v.t = "str" THEN PyStr(StripChars(v.s)) ELSE v

\* HttpUrl, reduced to: a string with an http or https scheme and a host.
IsHttpUrl(v) == v.t = "str" /\ re_match(url_regex, v.s)

NameMax == 50
PasswordMin == 8

\* The first class statement named UserUpdate (lines 42-57): the pre root
\* validator, then the fields of UserBase made optional.
UserUpdateFirst(values) ==
    IF ~AnyValue(values)
    THEN Raised("At least one field must be provided for update")
    ELSE IF \/ ~(Field(values, "email") = PyNone \/ IsEmail(Field(values, "email")))
            \/ validate_url(Field(values, "github_profile_url")).error # "none"
    THEN Raised("validation error")
    ELSE Returned([k \in {"email", "github_profile_url"} |-> Field(values, k)])

\* The second class statement named UserUpdate (lines 59-84).
UserUpdateSecond(values) ==
    IF \/ ~(Field(values, "email") = PyNone \/ IsEmail(Field(values, "email")))
       \/ ~(Field(values, "name") = PyNone
              \/ IsStrAtMost(strip_whitespace(Field(values, "name")), NameMax))
       \/ ~(Field(values, "password") = PyNone
              \/ IsStrAtLeast(Field(values, "password"), PasswordMin))
       \/ ~(Field(values, "github_profile_url") = PyNone
              \/ IsHttpUrl(Field(values, "github_profile_url")))
    THEN Raised("validation error")
    ELSE Returned([k \in {"email", "name", "password", "github_profile_url"}
                      |-> IF k = "name" THEN strip_whitespace(Field(values, k))
                          ELSE Field(values, k)])

\* The class the name UserUpdate is bound to once the module is loaded, and
\* so the one user_service.py imports: the later statement rebinds it.
UserUpdateStatements == <<"first", "second">>
UserUpdateBinding == UserUpdateStatements[Len(UserUpdateStatements)]

UserUpdate(values) ==
    IF UserUpdateBinding = "first" THEN UserUpdateFirst(values)
    ELSE UserUpdateSecond(values)

(***************************************************************************)
(* UserService                                                             *)
(***************************************************************************)
\* What a call leaves behind: r = [rows, s, ret, raised, failed, rolledBack]
\*   ret        : the entity returned ([id, user]) or PyNone
\*   raised     : an exception left the service method
\*   failed     : the step that raised first ("none" when nothing raised)
\*   rolledBack : session.rollback() was called
Entity(rows, i) == [id |-> i, user |-> rows[i]]

\* _execute_query: execute, commit; on SQLAlchemyError rollback and None.
\* Any other exception propagates ("raised").
_execute_query(rows, s, f) ==
    LET e == SessQuery(rows, s, Outcome(f, "execute"), f.breaks)
        c == SessCommit(e.rows, e.s, Outcome(f, "lookup_commit"))
        x == IF e.exc # "ok" THEN e ELSE c
        step == IF e.exc # "ok" THEN "execute" ELSE "commit"
    IN  IF x.exc = "ok"
        THEN [rows |-> x.rows, s |-> x.s, result |-> TRUE, raised |-> FALSE,
              failed |-> "none", rolledBack |-> FALSE]
        ELSE IF x.exc = "sqla"
        THEN [rows |-> x.rows, s |-> SessRollback(x.s), result |-> FALSE,
              raised |-> FALSE, failed |-> step, rolledBack |-> TRUE]
        ELSE [rows |-> x.rows, s |-> x.s, result |-> FALSE, raised |-> TRUE,
              failed |-> step, rolledBack |-> FALSE]

\* _fetch_user / get_by_id: result.scalars().first() if result else None
_fetch_user(rows, s, user_id, f) ==
    LET q == _execute_query(rows, s, f)
    IN  [rows |-> q.rows, s |-> q.s,
         ret |-> IF q.result /\ user_id \in DOMAIN q.rows
                 THEN Entity(q.rows, user_id) ELSE PyNone,
         raised |-> q.raised, failed |-> q.failed, rolledBack |-> q.rolledBack]

\* The except clauses of create_user, update_user_profile and
\* upgrade_user_to_pro: log and return None, without rollback.
Caught(rows, s, step) ==
    [rows |-> rows, s |-> s, ret |-> PyNone, raised |-> FALSE,
     failed |-> step, rolledBack |-> FALSE]

\* commit, refresh, return the entity: the tail of the three writers. The
\* entity is the one just added (created) or the loaded row user_id.
CommitRefreshReturn(rows, s, f, created, user_id) ==
    LET c == SessCommit(rows, s, Outcome(f, "commit"))
        r == SessQuery(c.rows, c.s, Outcome(f, "refresh"), f.breaks)
    IN  IF c.exc # "ok" THEN Caught(c.rows, c.s, "commit")
        ELSE IF r.exc # "ok" THEN Caught(r.rows, r.s, "refresh")
        ELSE [rows |-> r.rows, s |-> r.s,
              ret |-> Entity(r.rows, IF created THEN Len(r.rows) ELSE user_id),
              raised |-> FALSE, failed |-> "none", rolledBack |-> FALSE]

\* role=user_data.role: the role of the input is stored.
RoleOfInput(user_data) == user_data.role

\* The role create_user gives the new entity.
CreatedRole(user_data) == "USER"

\* The attributes create_user reads from user_data.
CreateReads == {"password", "email", "github_link", "linkedin_link",
                "profile_photo_url"}

NewUser(user_data, tok, nick) ==
    [email |-> user_data.email,
     hashed_password |-> hash_password(user_data.password),
     github_link |-> user_data.github_link,
     linkedin_link |-> user_data.linkedin_link,
     profile_photo_url |-> user_data.profile_photo_url,
     role |-> CreatedRole(user_data),
     verification_token |-> tok,
     nickname |-> nick,
     is_pro |-> FALSE]    \* not passed to User(...): the column's default

create_user(rows, s, user_data, f, tok, nick) ==
    IF ~HasAttrs(user_data, CreateReads)
    THEN Caught(rows, s, "AttributeError")
    ELSE CommitRefreshReturn(rows, SessAdd(s, NewUser(user_data, tok, nick)),
                             f, TRUE, 0)

get_by_id(rows, s, user_id, f) == _fetch_user(rows, s, user_id, f)

\* The attributes update_user_profile merges, in the order of its lines.
ProfileAttrs == <<"github_link", "linkedin_link", "profile_photo_url">>

\* db_user.a = user_update.a or db_user.a
MergedValue(new, old) == PyOr(new, old)

\* The assignments of lines 68-70 from the k-th on: s with the entity's
\* attributes set, or the AttributeError of the first missing attribute.
RECURSIVE MergeFrom(_, _, _, _, _)
MergeFrom(rows, s, user_id, user_update, k) ==
    IF k > Len(ProfileAttrs) THEN [exc |-> "ok", s |-> s]
    ELSE IF ProfileAttrs[k] \notin DOMAIN user_update
    THEN [exc |-> "AttributeError", s |-> s]
    ELSE MergeFrom(rows,
                   SessSet(rows, s, user_id, ProfileAttrs[k],
                           MergedValue(user_update[ProfileAttrs[k]],
                                       Loaded(rows, s, user_id)[ProfileAttrs[k]])),
                   user_id, user_update, k + 1)

update_user_profile(rows, s, user_id, user_update, f) ==
    LET g == get_by_id(rows, s, user_id, f)
        m == MergeFrom(g.rows, g.s, user_id, user_update, 1)
    IN  IF g.raised THEN [g EXCEPT !.raised = FALSE]
        ELSE IF g.ret = PyNone THEN g
        ELSE IF m.exc # "ok" THEN Caught(g.rows, m.s, "AttributeError")
        ELSE CommitRefreshReturn(g.rows, m.s, f, FALSE, user_id)

\* db_user.is_pro = db_user.is_pro: the flag is left as it was.
KeptFlag(old) == old

\* db_user.is_pro = not db_user.is_pro: the flag is toggled.
ToggledFlag(old) == ~old

\* The value upgrade_user_to_pro writes to is_pro.
UpgradedFlag(old) == TRUE

upgrade_user_to_pro(rows, s, user_id, f) ==
    LET g == get_by_id(rows, s, user_id, f)
    IN  IF g.raised THEN [g EXCEPT !.raised = FALSE]
        ELSE IF g.ret = PyNone THEN g
        ELSE CommitRefreshReturn(g.rows,
                 SessSet(g.rows, g.s, user_id, "is_pro",
                         UpgradedFlag(g.rows[user_id].is_pro)),
                 f, FALSE, user_id)

(***************************************************************************)
(* The calls a client makes                                                *)
(***************************************************************************)
OldUrl == "https://github.com/old"
NewUrl == "https://github.com/new"

\* Instances of the UserCreate schema: the fields of UserBase and password.
UserCreateObjects ==
    [email : {PyStr("a@b.com")}, nickname : {PyNone}, first_name : {PyNone},
     last_name : {PyNone}, bio : {PyNone}, profile_picture_url : {PyNone},
     linkedin_profile_url : {PyNone},
     github_profile_url : {PyStr(OldUrl)},
     role : Roles, password : {PyStr("Secure*1234")}]

\* Objects that carry the attributes create_user reads.
CreateAttrObjects ==
    [email : {PyStr("a@b.com")}, password : {PyStr("Secure*1234")},
     github_link : {PyStr(OldUrl)},
     linkedin_link : {PyStr(OldUrl)},
     profile_photo_url : {PyNone},
     role : Roles]

\* Instances of the UserUpdate schema the service imports (the second class
\* statement of that name).
UserUpdateObjects ==
    [email : {PyNone}, name : {PyNone}, bio : {PyNone}, location : {PyNone},
     password : {PyNone},
     linkedin_profile_url : {PyNone},
     github_profile_url : {PyStr(NewUrl)}]

\* Objects that carry the attributes update_user_profile reads.
UpdateAttrObject(github, linkedin, photo) ==
    [github_link |-> github, linkedin_link |-> linkedin,
     profile_photo_url |-> photo]
UpdateAttrObjects ==
    {UpdateAttrObject(PyStr(NewUrl), PyStr(""), PyNone),
     UpdateAttrObject(PyNone, PyStr(NewUrl), PyNone),
     UpdateAttrObject(PyStr(""), PyNone, PyStr(NewUrl)),
     UpdateAttrObject(PyNone, PyStr(""), PyNone)}

UserIds == 1..(MaxUsers + 1)

\* The end of a call: the store and the session as the call leaves them, and
\* the record of the call (wrote: the call changed the committed rows; again:
\* it repeats a successful upgrade of the same user).
Ended(op, user_id, input, f, r) ==
    /\ db' = r.rows
    /\ sess' = r.s
    /\ last' = [op |-> op, user_id |-> user_id, input |-> input,
                ret |-> r.ret, raised |-> r.raised, failed |-> r.failed,
                rolledBack |-> r.rolledBack,
                wrote |-> r.rows # db,
                again |-> /\ op = "upgrade_user_to_pro"
                          /\ last.op = op
                          /\ last.user_id = user_id
                          /\ last.ret # PyNone]
    /\ UNCHANGED <<schemaIn, schemaOut>>

GetById(user_id, f) ==
    /\ user_id \in UserIds
    /\ Ended("get_by_id", user_id, PyNone, f, get_by_id(db, sess, user_id, f))

CreateUser(user_data, f, tok, nick) ==
    /\ Len(db) + Len(sess.new) < MaxUsers
    /\ Ended("create_user", 0, user_data, f,
             create_user(db, sess, user_data, f, tok, nick))

UpdateUserProfile(user_id, user_update, f) ==
    /\ user_id \in UserIds
    /\ Ended("update_user_profile", user_id, user_update, f,
          update_user_profile(db, sess, user_id, user_update, f))

UpgradeUserToPro(user_id, f) ==
    /\ user_id \in UserIds
    /\ Ended("upgrade_user_to_pro", user_id, PyNone, f,
          upgrade_user_to_pro(db, sess, user_id, f))

NoCall == [op |-> "none", user_id |-> 0, input |-> PyNone, ret |-> PyNone,
           raised |-> FALSE, failed |-> "none", rolledBack |-> FALSE,
           wrote |-> FALSE, again |-> FALSE]

Init ==
    /\ db = NoRows
    /\ sess = CleanSession
    /\ last = NoCall
    /\ schemaIn = PyNone
    /\ schemaOut = PyNone

Next ==
    \/ \E user_id \in UserIds, f \in FaultsOf({"execute", "lookup_commit"}) :
            GetById(user_id, f)
    \/ \E user_data \in UserCreateObjects \cup CreateAttrObjects,
          f \in FaultsOf({"commit", "refresh"}),
          tok \in Tokens, nick \in Nicknames :
            CreateUser(user_data, f, tok, nick)
    \/ \E user_id \in UserIds,
          user_update \in UserUpdateObjects \cup UpdateAttrObjects,
          f \in FaultsOf({"execute", "lookup_commit", "commit", "refresh"}) :
            UpdateUserProfile(user_id, user_update, f)
    \/ \E user_id \in UserIds,
          f \in FaultsOf({"execute", "lookup_commit", "commit", "refresh"}) :
            UpgradeUserToPro(user_id, f)

Spec == Init /\ [][Next]_vars

(***************************************************************************)
(* The schema layer on its own: one call per behaviour                     *)
(***************************************************************************)
Http == <<"h", "t", "t", "p", ":", "/", "/">>
Https == <<"h", "t", "t", "p", "s", ":", "/", "/">>
UrlHeads == {Http, Https, <<>>, <<"h", "t", "t", "p", ":", "/">>,
             <<"f", "t", "p", ":", "/", "/">>,
             <<"h", "t", "t", "p", "s", "s", ":", "/", "/">>}
TailChars == {"a", ".", "/", "$", "?", "#", " ", "\n"}
RECURSIVE SeqsUpTo(_, _)
SeqsUpTo(S, n) ==
    IF n = 0 THEN {<<>>}
    ELSE LET shorter == SeqsUpTo(S, n - 1)
         IN  shorter \cup {Append(q, c) : q \in shorter, c \in S}
UrlArgs ==
    {PyNone} \cup {PyStr(h \o tl) : h \in UrlHeads, tl \in SeqsUpTo(TailChars, MaxTail)}

Empty == PyStr(<<>>)
GoodEmail == PyStr(<<"a", "@", "b">>)
GoodName == PyStr(<<"J", "o">>)
Blank == PyStr(<<" ">>)
GoodPassword == PyStr(<<"S", "e", "c", "u", "r", "e", "*", "1">>)
GoodUrl == PyStr(Https \o <<"a", ".", "a">>)
Absent == [t |-> "absent"]
PayloadChoices ==
    [email : {Absent, PyNone, Empty, PyInt(0), GoodEmail},
     name : {Absent, PyNone, Empty, Blank, GoodName},
     password : {Absent, PyNone, Empty, PyInt(0), GoodPassword},
     github_profile_url : {Absent, PyNone, Empty, GoodUrl}]
Payload(choice) ==
    [k \in {k \in DOMAIN choice : choice[k] # Absent} |-> choice[k]]
Payloads == {Payload(c) : c \in PayloadChoices}

Pending == [error |-> "pending", value |-> PyNone]

InitSchema ==
    /\ db = NoRows
    /\ sess = CleanSession
    /\ last = NoCall
    /\ schemaIn \in [fn : {"validate_url"}, arg : UrlArgs]
                        \cup [fn : {"UserUpdate"}, arg : Payloads]
    /\ schemaOut = Pending

CallValidateUrl ==
    /\ schemaIn.fn = "validate_url"
    /\ schemaOut = Pending
    /\ schemaOut' = validate_url(schemaIn.arg)
    /\ UNCHANGED <<db, sess, last, schemaIn>>

ConstructUserUpdate ==
    /\ schemaIn.fn = "UserUpdate"
    /\ schemaOut = Pending
    /\ schemaOut' = UserUpdate(schemaIn.arg)
    /\ UNCHANGED <<db, sess, last, schemaIn>>

NextSchema == CallValidateUrl \/ ConstructUserUpdate

SpecSchema == InitSchema /\ [][NextSchema]_vars

(***************************************************************************)
(* Properties of the service (checked under Spec)                          *)
(***************************************************************************)
SessionFailed == last.failed \in {"execute", "commit", "refresh"}
Existing == last.user_id \in DOMAIN db

\* C1: create_user, given a valid UserCreate instance and a session whose
\* operations do not fail, stores the new entity and returns it (not None),
\* with hashed_password = hash_password(password), which is not the plaintext.
C1_CreateStoresAndReturns ==
    (/\ last.op = "create_user"
     /\ last.input \in UserCreateObjects
     /\ ~SessionFailed)
    => /\ last.ret # PyNone
       /\ last.wrote
       /\ db[Len(db)] = last.ret.user
       /\ last.ret.user.hashed_password = hash_password(last.input.password)
       /\ last.ret.user.hashed_password # last.input.password

HasCreateDefaults(u) ==
    /\ u.role = "USER"
    /\ Truthy(u.verification_token)
    /\ NicknamePattern(u.nickname)

\* C2: whatever role the input of create_user carries, every entity it
\* stores (committed, pending in the session or returned) has the default
\* role USER, a non-empty verification token and a nickname matching the
\* nickname pattern.
C2_CreatedEntityHasDefaults ==
    /\ \A i \in DOMAIN db : HasCreateDefaults(db[i])
    /\ \A i \in DOMAIN sess.new : HasCreateDefaults(sess.new[i])
    /\ (last.op = "create_user" /\ last.ret # PyNone)
        => /\ HasCreateDefaults(last.ret.user)
           /\ db[last.ret.id] = last.ret.user

\* C2 witness: a create_user whose input asked for the role ADMIN stored
\* and returned an entity with the role USER.
C2_Witness ==
    /\ last.op = "create_user"
    /\ last.ret # PyNone
    /\ last.input.role = "ADMIN"
    /\ db[last.ret.id].role = "USER"

\* C3: update_user_profile on an existing user with a UserUpdate instance
\* in which only the github field is set stores that value, keeps the other
\* two links and returns the refreshed entity.
C3_OnlyGithubUpdate ==
    (/\ last.op = "update_user_profile"
     /\ last.input \in UserUpdateObjects
     /\ Truthy(last.input.github_profile_url)
     /\ Existing
     /\ ~SessionFailed)
    => /\ last.ret # PyNone
       /\ db[last.user_id].github_link = last.input.github_profile_url

\* C4: upgrade_user_to_pro on an existing user with a session that does not
\* fail returns the refreshed entity with the pro flag true, whatever the
\* flag was; a repeated upgrade returns the entity again and changes nothing
\* in the store.
C4_UpgradeIdempotent ==
    (/\ last.op = "upgrade_user_to_pro"
     /\ Existing
     /\ last.failed = "none")
    => /\ last.ret = Entity(db, last.user_id)
       /\ db[last.user_id].is_pro = TRUE
       /\ (last.again => ~last.wrote)

\* C4 witness: a second successful upgrade of the same user in a row.
C4_Witness ==
    /\ last.op = "upgrade_user_to_pro"
    /\ last.again
    /\ last.ret # PyNone
    /\ db[last.user_id].is_pro

\* C5: for a user id that matches no stored user, get_by_id,
\* update_user_profile and upgrade_user_to_pro return None, raise nothing
\* and leave the stored users unchanged.
C5_NotFoundReturnsNone ==
    (/\ last.op \in {"get_by_id", "update_user_profile", "upgrade_user_to_pro"}
     /\ ~Existing)
    => /\ last.ret = PyNone
       /\ ~last.raised
       /\ ~last.wrote

\* C6: in every service method an exception raised by the query execution
\* or by a commit ends with the session rolled back and None returned, and
\* does not leave the service.
C6_FailureRollsBack ==
    (last.op # "none" /\ last.failed \in {"execute", "commit"})
    => /\ last.rolledBack
       /\ last.ret = PyNone
       /\ ~last.raised

\* C9: a service call that returns None has changed nothing in the store and
\* leaves no pending entity or attribute change in the session.
C9_NoneMeansNoEffect ==
    (last.op # "none" /\ last.ret = PyNone /\ ~last.raised)
    => /\ ~last.wrote
       /\ sess.new = <<>>
       /\ sess.dirty = NoDirty

\* The attributes a service method may write on an existing user.
Writes(op) ==
    CASE op = "update_user_profile" ->
            {"github_link", "linkedin_link", "profile_photo_url"}
      [] op = "upgrade_user_to_pro" -> {"is_pro"}
      [] OTHER -> {}
C10_Step ==
    /\ \A i \in DOMAIN db' : db'[i].role = "USER"
    /\ \A i \in DOMAIN db :
        /\ i \in DOMAIN db'
        /\ (db[i].is_pro => db'[i].is_pro)
        /\ \A a \in DOMAIN db[i] \ Writes(last'.op) : db'[i][a] = db[i][a]
    /\ (last'.op # "create_user" => DOMAIN db' = DOMAIN db)

\* C10: across any sequence of calls from the empty store, every stored user
\* has the role USER; no call removes a user, clears a pro flag or changes a
\* user's email, role, hashed password, nickname or verification token;
\* update_user_profile writes nothing but the three links,
\* upgrade_user_to_pro nothing but the pro flag, get_by_id nothing.
C10_StoreInvariants == [][C10_Step]_vars

\* C10 witness: an update_user_profile has rewritten a link of a user whose
\* pro flag is set.
C10_Witness ==
    /\ last.op = "update_user_profile"
    /\ last.wrote
    /\ db[last.user_id].is_pro
    /\ db[last.user_id].role = "USER"

(***************************************************************************)
(* Properties of the schemas (checked under SpecSchema)                    *)
(***************************************************************************)
\* C7: constructing UserUpdate from a payload whose values are all absent
\* or falsy fails with "At least one field must be provided for update";
\* from a payload with a truthy value it succeeds.
C7_NoOpUpdateRejected ==
    (schemaIn.fn = "UserUpdate" /\ schemaOut # Pending)
    => IF AnyValue(schemaIn.arg)
       THEN schemaOut.error = "none"
       ELSE schemaOut.error = "At least one field must be provided for update"

HasHead(u, head) ==
    /\ Len(u) >= Len(head)
    /\ \A i \in 1..Len(head) : u[i] = head[i]
HostExcluded == Whitespace \cup {"/", "$", ".", "?", "#"}
Unchanged(call, out) == out = Returned(call.arg)
Rejected(out) == out = Raised("Invalid URL format")

\* An http:// or https:// URL whose host starts with none of whitespace
\* / $ . ? # and that holds no whitespace anywhere.
ClaimedUrl(u) ==
    /\ \E head \in {Http, Https} :
        /\ HasHead(u, head)
        /\ Len(u) > Len(head)
        /\ u[Len(head) + 1] \notin HostExcluded
    /\ \A i \in 1..Len(u) : u[i] \notin Whitespace

\* C8 as claimed: validate_url returns None unchanged; it returns a string
\* unchanged exactly when the string is an http:// or https:// URL whose
\* host starts with none of whitespace / $ . ? # and that holds no
\* whitespace anywhere, and otherwise fails with "Invalid URL format".
C8_ClaimedUrlRule ==
    (schemaIn.fn = "validate_url" /\ schemaOut # Pending)
    => IF schemaIn.arg = PyNone THEN Unchanged(schemaIn, schemaOut)
       ELSE IF ClaimedUrl(schemaIn.arg.s) THEN Unchanged(schemaIn, schemaOut)
       ELSE Rejected(schemaOut)

\* http:// or https://, a character that is none of whitespace / $ . ? #,
\* one more character of any kind but a newline, then only non-whitespace
\* characters up to the end of the string or up to one final newline.
AcceptedUrl(u) ==
    \E head \in {Http, Https} :
        /\ HasHead(u, head)
        /\ Len(u) >= Len(head) + 2
        /\ u[Len(head) + 1] \notin HostExcluded
        /\ u[Len(head) + 2] # "\n"
        /\ \A i \in (Len(head) + 3)..Len(u) :
            \/ u[i] \notin Whitespace
            \/ i = Len(u) /\ u[i] = "\n"

\* C8 as amended: validate_url returns None unchanged; it returns a string
\* unchanged exactly when the string is http:// or https://, then a
\* character that is none of whitespace / $ . ? #, then one more character
\* of any kind but a newline (a space or a tab will do), then only
\* non-whitespace characters, up to the end of the string or up to one final
\* newline; any other string fails with "Invalid URL format".
C8_UrlRule ==
    (schemaIn.fn = "validate_url" /\ schemaOut # Pending)
    => IF schemaIn.arg = PyNone THEN Unchanged(schemaIn, schemaOut)
       ELSE IF AcceptedUrl(schemaIn.arg.s) THEN Unchanged(schemaIn, schemaOut)
       ELSE Rejected(schemaOut)

\* C8 witness: validate_url has returned unchanged a URL whose second host
\* character is a space.
C8_Witness ==
    /\ schemaIn.fn = "validate_url"
    /\ schemaIn.arg = PyStr(Http \o <<"a", " ">>)
    /\ schemaOut = Returned(schemaIn.arg)

====
